---------------------------- MODULE Spec2Model ----------------------------
(***************************************************************************)
(* The Aethra analysis worker (worker-hf.js, carried in                    *)
(* src/aethra-backend/src/middleware/serviceAuth.ts) and the Report Store  *)
(* routes it talks to (routes/reports.ts, carried in src/unnamed/part_001).*)
(*                                                                         *)
(* A worker process is a record w[r]: its program counter, the state of    *)
(* the retry loop it is in, the report it fetched, its cleanup list, the   *)
(* local files it made, and a log of the operations it started.  The       *)
(* Report Store holds one report record.  Every invocation of an           *)
(* operation under retry(), every backoff sleep and every throw out of     *)
(* retry() is one step.                                                    *)
(***************************************************************************)
EXTENDS Integers, Sequences, FiniteSets, TLC

VARIABLES store, env, w

vars == <<store, env, w>>

(***************************************************************************)
(* Bounds of the model.                                                    *)
(***************************************************************************)
\* largest maxAttempts a bare retry() call is given (SpecRetry)
MaxAttempts == 4
\* largest number of frames ffmpeg leaves in the frames directory
MaxExtracted == 3
\* MAX_FRAMES, the frame cap: Number(process.env.MAX_FRAMES || 8).  The model
\* runs with a cap below MaxExtracted, so that the cap cuts the sample.
MAX_FRAMES == 2

(***************************************************************************)
(* Program constants.                                                      *)
(***************************************************************************)
\* retry(fn, attempts = 3, baseDelay = 500)
DefaultAttempts == 3
DefaultBaseDelay == 500

Runs == {"r1", "r2"}

\* base delays a bare retry() call is given
BaseDelays == {DefaultBaseDelay, 100}

(***************************************************************************)
(* Errors.  Every failing invocation makes a fresh error object: kind is   *)
(* what failed, site the call that made it, n the invocation's index       *)
(* within its retry() call (0 for an error thrown outside retry).          *)
(***************************************************************************)
NoErr == [kind |-> "none", site |-> "none", n |-> 0]

Err(kind, site, n) == [kind |-> kind, site |-> site, n |-> n]

NoVal == [val |-> "none", n |-> 0]

\* err.message, as the thrower sets it
Message(e) ==
  CASE e.kind = "http400" -> "Request failed with status code 400"
    [] e.kind = "http401" -> "Request failed with status code 401"
    [] e.kind = "http403" -> "Request failed with status code 403"
    [] e.kind = "http404" -> "Request failed with status code 404"
    [] e.kind = "http500" -> "Request failed with status code 500"
    [] e.kind = "http503" -> "Request failed with status code 503"
    [] e.kind = "network" -> "Network Error"
    [] e.kind = "timeout" -> "timeout of 30000ms exceeded"
    [] e.kind = "gcs" -> "storage request failed"
    [] e.kind = "fs" -> "EACCES: permission denied"
    [] e.kind = "notFound" -> "Report not found: id"
    [] e.kind = "unknownType" -> "Unknown report type: other"
    [] e.kind = "fileUrlMissing" -> "report.fileUrl missing"
    [] e.kind = "invalidGsUri" -> "Invalid gs uri: http://host/v.mp4"
    [] e.kind = "ffmpeg" -> "ffmpeg failed with code 1"
    [] e.kind = "noFrames" -> "No frames extracted"
    [] e.kind = "typeError" -> "Cannot set properties of null"
    [] OTHER -> "error"

(***************************************************************************)
(* retry(fn, attempts, baseDelay): the loop state.  st is where the loop   *)
(* stands: "call" (about to invoke fn), "wait" (sleeping after a failed    *)
(* invocation), "throw" (loop left, about to throw lastErr), "returned",   *)
(* "threw".  calls, waits and errs record what the call has done so far.   *)
(***************************************************************************)
RetryOff ==
  [st |-> "off", i |-> 0, attempts |-> 0, baseDelay |-> 0, lastErr |-> NoErr,
   delay |-> 0, calls |-> 0, waits |-> <<>>, errs |-> <<>>]

\* let lastErr; for (let i = 0; i < attempts; ...
retry_start(attempts, baseDelay) ==
  [RetryOff EXCEPT !.st = IF 0 < attempts THEN "call" ELSE "throw",
                   !.attempts = attempts, !.baseDelay = baseDelay]

\* try { return await fn(); }  with fn() fulfilled
retry_return(rt) ==
  [rt EXCEPT !.st = "returned", !.calls = @ + 1]

\* the mutant: lastErr keeps the first error
retry_catch_keepsFirst(rt, err) ==
  [rt EXCEPT !.lastErr = IF rt.lastErr = NoErr THEN err ELSE rt.lastErr,
             !.delay = rt.baseDelay * (2 ^ rt.i),
             !.st = "wait",
             !.calls = @ + 1,
             !.errs = Append(@, err)]

\* catch (err) { lastErr = err; const delay = baseDelay * Math.pow(2, i); await sleep }
retry_catch(rt, err) ==
  [rt EXCEPT !.lastErr = err,
             !.delay = rt.baseDelay * (2 ^ rt.i),
             !.st = "wait",
             !.calls = @ + 1,
             !.errs = Append(@, err)]

\* the mutant: the loop never gives up
retry_wake_neverGivesUp(rt) ==
  [rt EXCEPT !.waits = Append(@, rt.delay),
             !.i = @ + 1,
             !.st = "call"]

\* the sleep is over: i++, and the loop condition i < attempts
retry_wake(rt) ==
  [rt EXCEPT !.waits = Append(@, rt.delay),
             !.i = @ + 1,
             !.st = IF rt.i + 1 < rt.attempts THEN "call" ELSE "throw"]

\* throw lastErr
retry_threw(rt) == [rt EXCEPT !.st = "threw"]

(***************************************************************************)
(* The Report Store (routes/reports.ts, models/report.ts, middleware/      *)
(* auth.ts).  env is the deployment: svcKeyValid says SERVICE_KEY is one   *)
(* of the server's SERVICE_API_KEYS, svcJwtUid is the uid jwt.verify       *)
(* decodes from SERVICE_KEY ("none": it does not verify as a token),       *)
(* idValid says the report id given to the worker is a valid ObjectId.     *)
(***************************************************************************)
EmptyResult == [type |-> "empty"]

\* generateMockResult(type), which the creation routes store at once
MockResult == [type |-> "mock"]

NoReport == [exists |-> FALSE]

\* the PATCH the stored report was last saved by: the run and the number of
\* its patch operation (kept for the claims; no handler reads it)
NoWrite == [run |-> "none", op |-> 0]

ReportTypes == {"audit", "deepfake", "other"}
Statuses == {"pending", "completed", "failed"}
FileUrls == {"none", "gs://bucket/v.mp4", "http://host/v.mp4"}

Reports ==
  {[exists |-> TRUE, type |-> t, ownerUid |-> "u1", fileUrl |-> f, status |-> s,
    metadata |-> "none",
    result |-> IF s = "completed" THEN MockResult ELSE EmptyResult,
    last |-> NoWrite] :
     t \in ReportTypes, f \in FileUrls, s \in Statuses}

Envs == [svcKeyValid : BOOLEAN, svcJwtUid : {"none", "u1", "u2"}, idValid : BOOLEAN]

\* verifyToken: the uid of the bearer token, "none" when jwt.verify throws (401)
verifyToken(e) == e.svcJwtUid

\* router.get("/:id", verifyFirebaseToken, ...): the response to the worker's GET
reports_get(st, e) ==
  IF verifyToken(e) = "none" THEN [kind |-> "http401", data |-> NoReport]
  ELSE IF ~e.idValid THEN [kind |-> "http400", data |-> NoReport]
  ELSE IF ~st.exists THEN [kind |-> "http404", data |-> NoReport]
  ELSE IF st.ownerUid # verifyToken(e) THEN [kind |-> "http403", data |-> NoReport]
  ELSE [kind |-> "ok", data |-> st]

\* verifyWorkerOrUser: "service", a user's uid, or "none" (401)
verifyWorkerOrUser(e) == IF e.svcKeyValid THEN "service" ELSE verifyToken(e)

\* req.body of a PATCH: result is falsy (absent, null, "") or a value, status
\* is absent ("none") or a string
PatchResults == {[type |-> "falsy"], EmptyResult, MockResult}
PatchStatuses == {"none", "pending", "completed", "failed", "archived"}
PatchBodies == [result : PatchResults, status : PatchStatuses]

\* the mutant: a completed report is left as it is
patch_apply_keepsCompleted(st, body) ==
  IF st.status = "completed" THEN st
  ELSE [st EXCEPT !.result = IF body.result.type # "falsy" THEN body.result ELSE st.result,
                  !.status = IF body.status \in Statuses THEN body.status ELSE st.status]

\* if (result) report.result = result; if (status && [...].includes(status)) ...
patch_apply(st, body) ==
  [st EXCEPT !.result = IF body.result.type # "falsy" THEN body.result ELSE st.result,
             !.status = IF body.status \in Statuses THEN body.status ELSE st.status]

\* the mutant: a status outside the three is refused
reports_patch_refusesUnknownStatus(st, e, body) ==
  IF verifyWorkerOrUser(e) = "none" THEN [kind |-> "http401", store |-> st]
  ELSE IF ~e.idValid THEN [kind |-> "http400", store |-> st]
  ELSE IF ~st.exists THEN [kind |-> "http404", store |-> st]
  ELSE IF verifyWorkerOrUser(e) # "service" /\ st.ownerUid # verifyWorkerOrUser(e)
    THEN [kind |-> "http403", store |-> st]
  ELSE IF body.status \notin Statuses \cup {"none"} THEN [kind |-> "http400", store |-> st]
  ELSE [kind |-> "ok", store |-> patch_apply(st, body)]

\* router.patch("/:id", verifyWorkerOrUser, ...) up to report.save()
reports_patch(st, e, body) ==
  IF verifyWorkerOrUser(e) = "none" THEN [kind |-> "http401", store |-> st]
  ELSE IF ~e.idValid THEN [kind |-> "http400", store |-> st]
  ELSE IF ~st.exists THEN [kind |-> "http404", store |-> st]
  ELSE IF verifyWorkerOrUser(e) # "service" /\ st.ownerUid # verifyWorkerOrUser(e)
    THEN [kind |-> "http403", store |-> st]
  ELSE [kind |-> "ok", store |-> patch_apply(st, body)]

\* the failures the environment may still inject into a run: any number, or
\* the number left
Unlimited == [limited |-> FALSE, left |-> 0]
AtMost(n) == [limited |-> TRUE, left |-> n]

\* no response received yet, nothing parsed yet
NoRaw == [k |-> "none"]
NoJson == [j |-> "none"]
\* nothing aggregated yet
NoAgg == [verdict |-> "none"]
\* no response data at hand
NoData == [d |-> "none"]

(***************************************************************************)
(* A worker process.                                                       *)
(***************************************************************************)
Idle ==
  [pc |-> "idle", rt |-> RetryOff, ret |-> NoVal, thrown |-> NoErr,
   report |-> NoReport, toCleanup |-> <<>>, files |-> {}, rmTried |-> {},
   caught |-> NoErr, log |-> <<>>, patches |-> <<>>,
   frames |-> 0, sample |-> 0, frameResults |-> <<>>, agg |-> NoAgg,
   listing |-> <<>>, sampled |-> <<>>, data |-> NoData, raw |-> NoRaw,
   clf |-> <<>>, prompt |-> <<>>, mmErr |-> NoErr, reportErr |-> NoErr, rawSite |-> "none",
   parsed |-> NoJson,
   result |-> EmptyResult,
   faults |-> Unlimited]

\* the environment may make a step of the run fail
CanFail(s) == s.faults.limited => s.faults.left > 0

\* the run after a step the environment made fail
Failed(s) == IF s.faults.limited THEN [s EXCEPT !.faults.left = @ - 1] ELSE s

Range(seq) == {seq[j] : j \in 1..Len(seq)}

\* values an abstract operation under a bare retry() may return
FnValues == {"a", "b"}
FnErrKinds == {"network", "timeout"}

(***************************************************************************)
(* A bare retry(fn, attempts, baseDelay) call of an arbitrary operation.   *)
(***************************************************************************)
InitRetry ==
  /\ store = NoReport
  /\ env = [svcKeyValid |-> FALSE, svcJwtUid |-> "none", idValid |-> FALSE]
  /\ \E a \in 1..MaxAttempts, b \in BaseDelays :
       w = [r \in Runs |->
              IF r = "r1" THEN [Idle EXCEPT !.pc = "fn", !.rt = retry_start(a, b)]
              ELSE Idle]

\* one invocation of fn: it fulfils with a value or rejects with an error
fn_invoke(r) ==
  /\ w[r].pc = "fn"
  /\ w[r].rt.st = "call"
  /\ \/ \E v \in FnValues :
          w' = [w EXCEPT ![r].rt = retry_return(@),
                         ![r].ret = [val |-> v, n |-> w[r].rt.calls],
                         ![r].pc = "fn_returned"]
     \/ \E k \in FnErrKinds :
          w' = [w EXCEPT ![r].rt = retry_catch(@, Err(k, "fn", w[r].rt.calls))]
  /\ UNCHANGED <<store, env>>

\* await new Promise(res => setTimeout(res, delay))
retry_sleep(r) ==
  /\ w[r].rt.st = "wait"
  /\ w' = [w EXCEPT ![r].rt = retry_wake(@)]
  /\ UNCHANGED <<store, env>>

\* throw lastErr, out of a bare retry() call
fn_throw(r) ==
  /\ w[r].pc = "fn"
  /\ w[r].rt.st = "throw"
  /\ w' = [w EXCEPT ![r].rt = retry_threw(@),
                    ![r].thrown = w[r].rt.lastErr,
                    ![r].pc = "fn_threw"]
  /\ UNCHANGED <<store, env>>

NextRetry == \E r \in Runs : fn_invoke(r) \/ retry_sleep(r) \/ fn_throw(r)

SpecRetry == InitRetry /\ [][NextRetry]_vars

(***************************************************************************)
(* Strings.  A JavaScript string is the sequence of its characters, so     *)
(* that toLowerCase, includes, slice and the confidence pattern are        *)
(* computed on it as the code computes them.                               *)
(***************************************************************************)
UpperCase == 
  <<"A", "B", "C", "D", "E", "F", "G", "H", "I", "J", "K", "L", "M", "N", "O", "P", "Q", "R", "S", "T", "U", "V", "W", "X", "Y", "Z">>
LowerCase == 
  <<"a", "b", "c", "d", "e", "f", "g", "h", "i", "j", "k", "l", "m", "n", "o", "p", "q", "r", "s", "t", "u", "v", "w", "x", "y", "z">>
Digits == <<"0", "1", "2", "3", "4", "5", "6", "7", "8", "9">>
Whitespace == {" ", "\t", "\n"}

\* the index of x in seq, 0 when it is not there
IndexOf(seq, x) ==
  IF \E j \in 1..Len(seq) : seq[j] = x
  THEN CHOOSE j \in 1..Len(seq) : seq[j] = x /\ \A k \in 1..(j - 1) : seq[k] # x
  ELSE 0

\* String.prototype.toLowerCase
toLowerCase(str) ==
  [j \in 1..Len(str) |->
     IF IndexOf(UpperCase, str[j]) > 0 THEN LowerCase[IndexOf(UpperCase, str[j])]
     ELSE str[j]]

\* String.prototype.includes
includes(str, sub) ==
  \E p \in 1..(Len(str) - Len(sub) + 1) : SubSeq(str, p, p + Len(sub) - 1) = sub

\* String.prototype.slice(0, n)
slice0(str, n) == IF Len(str) <= n THEN str ELSE SubSeq(str, 1, n)

\* t.includes("fake") || t.includes("synthetic") || t.includes("manipul")
saysFake(t) ==
  \E str \in {t} :
    \/ includes(str, <<"f", "a", "k", "e">>)
    \/ includes(str, <<"s", "y", "n", "t", "h", "e", "t", "i", "c">>)
    \/ includes(str, <<"m", "a", "n", "i", "p", "u", "l">>)

IsDigit(c) == IndexOf(Digits, c) > 0

\* the first index >= p of str that holds no whitespace (Len(str) + 1: none)
SkipSpace(str, p) ==
  IF \E q \in p..Len(str) : str[q] \notin Whitespace
  THEN CHOOSE q \in p..Len(str) :
         str[q] \notin Whitespace /\ \A k \in p..(q - 1) : str[k] \in Whitespace
  ELSE Len(str) + 1

\* /confidence[:=]\s*(\d{1,3})/ matches str at p
ConfidenceAt(str, p) ==
  /\ p + 10 <= Len(str)
  /\ SubSeq(str, p, p + 9) = <<"c", "o", "n", "f", "i", "d", "e", "n", "c", "e">>
  /\ str[p + 10] \in {":", "="}
  /\ SkipSpace(str, p + 11) <= Len(str)
  /\ IsDigit(str[SkipSpace(str, p + 11)])

\* Number(m[1]) of the digits at q: one to three of them, as many as there are
DigitsAt(str, q) ==
  LET d(k) == IndexOf(Digits, str[k]) - 1
      has(k) == k <= Len(str) /\ IsDigit(str[k])
  IN IF has(q + 1) /\ has(q + 2) THEN 100 * d(q) + 10 * d(q + 1) + d(q + 2)
     ELSE IF has(q + 1) THEN 10 * d(q) + d(q + 1)
     ELSE d(q)

\* t.match(/confidence[:=]\s*(\d{1,3})/): has says whether it matched
matchConfidence(str) ==
  IF \E p \in 1..Len(str) : ConfidenceAt(str, p)
  THEN LET p == CHOOSE p \in 1..Len(str) :
                  ConfidenceAt(str, p) /\ \A k \in 1..(p - 1) : ~ConfidenceAt(str, k)
       IN [has |-> TRUE, val |-> DigitsAt(str, SkipSpace(str, p + 11))]
  ELSE [has |-> FALSE, val |-> 0]

(***************************************************************************)
(* Per-frame results and aggregateFrameResults.  A per-frame result is     *)
(*   shape "null":       null                                              *)
(*   shape "classifier": an object whose classifier is an array; items are *)
(*                       its elements, label <<>> standing for no label,   *)
(*                       score in thousandths                              *)
(*   shape "text":       a string, text its characters                     *)
(*   shape "opaque":     any other object, text its JSON.stringify         *)
(*   shape "error":      {frame, error}, text the error's message          *)
(***************************************************************************)
NoItems == <<>>
NoText == <<>>

FrameResult(shape, frame, items, text) ==
  [shape |-> shape, frame |-> frame, items |-> items, text |-> text]

Item(label, hasScore, score) == [label |-> label, hasScore |-> hasScore, score |-> score]

\* Math.round(x / y) for x >= 0, y > 0
RoundDiv(x, y) == (2 * x + y) \div (2 * y)

\* if (best && best.label): the classifier array has a first element with a label
hasLabelledBest(fr) ==
  /\ fr.shape = "classifier"
  /\ Len(fr.items) > 0
  /\ fr.items[1].label # <<>>

\* if (best.score) confidences.push(Math.round(best.score * 100))
scoreSample(best) ==
  IF best.hasScore /\ best.score # 0 THEN <<RoundDiv(best.score, 10)>> ELSE <<>>

\* JSON.stringify(fr) of a result that is neither null nor a string: of a
\* classifier array the labels matter, of an error marker the message
stringify(fr) ==
  IF fr.shape = "classifier"
  THEN IF Len(fr.items) > 0 THEN fr.items[1].label ELSE <<>>
  ELSE IF fr.shape = "error"
  THEN <<"{", "\"", "f", "r", "a", "m", "e", "\"", ":", "\"", "f", "r", "a", "m", "e", ".", "j", "p", "g", "\"", ",", "\"", "e", "r", "r", "o", "r", "\"", ":", "\"">> \o fr.text \o <<"\"", "}">>
  ELSE fr.text

\* the fake vote one per-frame result casts (0 or 1)
fakeVote(fr) ==
  IF fr.shape = "null" THEN 0
  ELSE IF hasLabelledBest(fr)
    THEN (IF saysFake(toLowerCase(fr.items[1].label)) THEN 1 ELSE 0)
  ELSE IF fr.shape = "text"
    THEN (IF saysFake(toLowerCase(fr.text)) THEN 1 ELSE 0)
  ELSE (IF saysFake(toLowerCase(stringify(fr))) THEN 1 ELSE 0)

\* the confidence samples one per-frame result adds
samples(fr) ==
  IF fr.shape = "null" THEN <<>>
  ELSE IF hasLabelledBest(fr) THEN scoreSample(fr.items[1])
  ELSE IF fr.shape = "text"
    THEN (IF matchConfidence(toLowerCase(fr.text)).has
          THEN <<matchConfidence(toLowerCase(fr.text)).val>> ELSE <<>>)
  ELSE <<>>

RECURSIVE Sum(_)
Sum(seq) == IF seq = <<>> THEN 0 ELSE Head(seq) + Sum(Tail(seq))

\* for (const fr of frameResults) { ... }: fakeVotes and confidences
RECURSIVE aggregate_loop(_, _)
aggregate_loop(frameResults, acc) ==
  IF frameResults = <<>> THEN acc
  ELSE aggregate_loop(Tail(frameResults),
         [fakeVotes |-> acc.fakeVotes + fakeVote(Head(frameResults)),
          confidences |-> acc.confidences \o samples(Head(frameResults))])

\* the mutant: the thresholds are not strict
verdictOf_notStrict(fakeVotes, total) ==
  IF 10 * fakeVotes >= 4 * total THEN "likely_fake"
  ELSE IF 10 * fakeVotes <= total THEN "likely_real"
  ELSE "inconclusive"

\* ratio > 0.4 ? "likely_fake" : ratio < 0.1 ? "likely_real" : "inconclusive",
\* with ratio = fakeVotes / total
verdictOf(fakeVotes, total) ==
  IF 10 * fakeVotes > 4 * total THEN "likely_fake"
  ELSE IF 10 * fakeVotes < total THEN "likely_real"
  ELSE "inconclusive"

\* Math.round(Math.min(100, Math.max(40, ratio * 100 + 40)))
ratioEstimate(fakeVotes, total) ==
  LET x == RoundDiv(100 * fakeVotes + 40 * total, total)
      lo == IF x < 40 THEN 40 ELSE x
  IN IF lo > 100 THEN 100 ELSE lo

\* function aggregateFrameResults(frameResults)
aggregateFrameResults(frameResults) ==
  LET acc == aggregate_loop(frameResults, [fakeVotes |-> 0, confidences |-> <<>>])
      total == IF Len(frameResults) # 0 THEN Len(frameResults) ELSE 1
      n == Len(acc.confidences)
      avgConf == IF n # 0 THEN [has |-> TRUE, val |-> RoundDiv(Sum(acc.confidences), n)]
                 ELSE [has |-> FALSE, val |-> 0]
  IN [verdict |-> verdictOf(acc.fakeVotes, total),
      confidence |-> IF avgConf.has /\ avgConf.val # 0 THEN avgConf.val
                     ELSE ratioEstimate(acc.fakeVotes, total),
      ratio |-> [num |-> acc.fakeVotes, den |-> total],
      fakeVotes |-> acc.fakeVotes,
      total |-> total,
      avgConf |-> avgConf,
      confidences |-> acc.confidences]

(***************************************************************************)
(* run(reportId) and the pipelines.                                        *)
(***************************************************************************)
\* summary: raw.toString().slice(0, 1000)
SummaryMax == 1000

\* a text the worker never scans: its identity and its length
Text(id, len) == [id |-> id, len |-> len]

\* the mutant: the whole text is kept
sliceText_whole(text, n) == text

\* text.slice(0, n)
sliceText(text, n) == [text EXCEPT !.len = IF @ <= n THEN @ ELSE n]

(***************************************************************************)
(* JSON values.  An object holds every field name; a field it does not     *)
(* carry reads as undefined, as in JavaScript.                             *)
(***************************************************************************)
Undefined == [j |-> "undefined"]
JNull == [j |-> "null"]
JNum(n) == [j |-> "number", n |-> n]
JStr(text) == [j |-> "string", t |-> text]
JArr(n) == [j |-> "array", n |-> n]
\* what JSON.parse gives for a text that is not JSON: it throws
Invalid == [j |-> "invalid"]

FieldNames ==
  {"summary", "type", "verdict", "confidence", "scores", "metrics",
   "flagged_issues", "recommendations", "evidence", "artifacts",
   "raw_output", "diagnostic", "transparency", "fairness", "privacy",
   "robustness"}

EmptyFields == [n \in FieldNames |-> Undefined]
JObj(f) == [j |-> "object", f |-> f]
EmptyObject == JObj(EmptyFields)

\* the truthiness of a value, as || and if (...) see it
truthy(v) ==
  CASE v.j \in {"undefined", "null"} -> FALSE
    [] v.j = "number" -> v.n # 0
    [] v.j = "string" -> v.t.len # 0
    [] OTHER -> TRUE

\* a || b
or(a, b) == IF truthy(a) THEN a ELSE b

\* v.name throws a TypeError
cannotRead(v) == v.j \in {"undefined", "null"}

\* v.name, for v that is neither null nor undefined
get(v, name) == IF v.j = "object" THEN v.f[name] ELSE Undefined

\* v.name = x outside strict mode: an object takes it; on a primitive it is a
\* no-op; the property an array takes is not part of its JSON
set(v, name, x) == IF v.j = "object" THEN JObj([v.f EXCEPT ![name] = x]) ELSE v

\* the value carries the field
carries(v, name) == v.j = "object" /\ v.f[name] # Undefined

(***************************************************************************)
(* The inference provider's responses (res.data) and what the wrappers     *)
(* return for them.  A string holds its text and what JSON.parse gives for *)
(* it.                                                                     *)
(***************************************************************************)
\* typeof data === "string"
DataString(text, json) == [d |-> "string", text |-> text, json |-> json]
\* [{generated_text: "..."}]
DataGenerated(text, json) == [d |-> "generated", text |-> text, json |-> json]
\* any other JSON body
DataJson(val) == [d |-> "json", val |-> val]

RawString(text, json) == [k |-> "string", text |-> text, json |-> json]
RawValue(val) == [k |-> "value", val |-> val]

\* callHFTextModel: the string, the generated text, or JSON.stringify(data)
callHFTextModel_return(data) ==
  IF data.d \in {"string", "generated"} THEN RawString(data.text, data.json)
  ELSE RawString(Text("JSON.stringify(data)", 4), data.val)

\* callHFReportModel's multimodal branch: the string, the generated text, or
\* data itself
callHFReportModel_return(data) ==
  IF data.d \in {"string", "generated"} THEN RawString(data.text, data.json)
  ELSE RawValue(data.val)

\* the outcome of a pipeline: the value it returns or the error it throws
Returned(value) == [threw |-> FALSE, value |-> value, err |-> NoErr]
Threw(err) == [threw |-> TRUE, value |-> Undefined, err |-> err]

AuditArtifact == Text("gs://bucket/diagnostics/audit-raw-run.txt", 41)
DiagArtifact == Text("gs://bucket/diagnostics/deepfake-run.json", 41)

\* the object of analyzeAudit's catch
AuditFallback(raw) ==
  JObj([EmptyFields EXCEPT
          !.summary = JStr(sliceText(raw.text, SummaryMax)),
          !.type = JStr(Text("audit", 5)),
          !.scores = JObj([EmptyFields EXCEPT !.transparency = JNum(60),
                                              !.fairness = JNum(50),
                                              !.privacy = JNum(60),
                                              !.robustness = JNum(55)]),
          !.metrics = EmptyObject,
          !.flagged_issues = JArr(0),
          !.recommendations = JArr(0)])

\* try { parsed = JSON.parse(raw); } catch (err) { parsed = {...}; }
analyzeAudit_parsed(raw) ==
  IF raw.json # Invalid THEN raw.json ELSE AuditFallback(raw)

\* parsed.artifacts = parsed.artifacts || {};
\* parsed.artifacts.raw_output = art; return parsed;
analyzeAudit_return(parsed) ==
  IF cannotRead(parsed) THEN Threw(Err("typeError", "analyzeAudit", 0))
  ELSE IF parsed.j = "array" THEN Returned(parsed)
  ELSE LET p == set(parsed, "artifacts", or(get(parsed, "artifacts"), EmptyObject)) IN
       IF cannotRead(get(p, "artifacts"))
       THEN Threw(Err("typeError", "analyzeAudit", 0))
       ELSE Returned(set(p, "artifacts",
                         set(get(p, "artifacts"), "raw_output", JStr(AuditArtifact))))

\* typeof rawReport === "object"
isObjectType(raw) == raw.k = "value" /\ raw.val.j \in {"object", "array", "null"}

\* the object of analyzeDeepfake's catch
DeepfakeFallback(raw, agg, frameResults) ==
  JObj([EmptyFields EXCEPT
          !.summary = JStr(sliceText(raw.text, SummaryMax)),
          !.type = JStr(Text("deepfake", 8)),
          !.verdict = JStr(Text(agg.verdict, Len(agg.verdict))),
          !.confidence = JNum(agg.confidence),
          !.evidence = JArr(IF Len(frameResults) <= 6 THEN Len(frameResults) ELSE 6),
          !.recommendations = JArr(0)])

\* try { if (typeof rawReport === "object") parsedReport = rawReport;
\*       else parsedReport = JSON.parse(...); } catch (err) { parsedReport = {...}; }
analyzeDeepfake_parsed(raw, agg, frameResults) ==
  IF isObjectType(raw) THEN raw.val
  ELSE IF raw.k = "value" THEN raw.val   \* JSON.parse(JSON.stringify(rawReport))
  ELSE IF raw.json # Invalid THEN raw.json
  ELSE DeepfakeFallback(raw, agg, frameResults)

\* `Deepfake analysis: ${agg.verdict} (conf ${agg.confidence})`
DefaultSummary(agg) ==
  Text("Deepfake analysis: " \o agg.verdict \o " (conf " \o ToString(agg.confidence) \o ")",
       Len(agg.verdict) + 28 + Len(ToString(agg.confidence)))

\* parsedReport.verdict || agg.verdict, parsedReport.confidence || agg.confidence
preferred(field, fallback) == or(field, fallback)

\* const result = { summary: parsedReport.summary || ..., ... }; return result;
analyzeDeepfake_return(parsedReport, agg) ==
  IF cannotRead(parsedReport) THEN Threw(Err("typeError", "analyzeDeepfake", 0))
  ELSE Returned(JObj([EmptyFields EXCEPT
         !.summary = or(get(parsedReport, "summary"), JStr(DefaultSummary(agg))),
         !.type = JStr(Text("deepfake", 8)),
         !.verdict = preferred(get(parsedReport, "verdict"),
                               JStr(Text(agg.verdict, Len(agg.verdict)))),
         !.confidence = preferred(get(parsedReport, "confidence"), JNum(agg.confidence)),
         !.artifacts = JObj([EmptyFields EXCEPT !.diagnostic = JStr(DiagArtifact)])]))

\* the responses the inference provider gives a run: a generated JSON
\* report, prose short, long and empty, and the JSON bodies null and []
ReportObject ==
  JObj([EmptyFields EXCEPT
          !.summary = JStr(Text("The video shows signs of manipulation", 37)),
          !.type = JStr(Text("deepfake", 8)),
          !.verdict = JStr(Text("likely_fake", 11)),
          !.confidence = JNum(77)])

Responses ==
  {DataGenerated(Text("{\"summary\": ...}", 120), ReportObject),
   DataString(Text("not json", 8), Invalid),
   DataString(Text("long prose", SummaryMax + 1), Invalid),
   DataString(Text("", 0), Invalid),
   DataJson(JNull),
   DataJson(JArr(0))}

\* the classifier's response a run gets: the top label and its score
ClassifierData ==
  {<<Item(<<"F", "a", "k", "e">>, TRUE, 900)>>}

\* axios's message for a response with status 503
Http503Message ==
  <<"R", "e", "q", "u", "e", "s", "t", " ", "f", "a", "i", "l", "e", "d", " ", "w", "i", "t", "h", " ", "s", "t", "a", "t", "u", "s", " ", "c", "o", "d", "e", " ", "5", "0", "3">>

\* frameResults.push({ frame: path.basename(f), classifier: clfRaw })
classifierEntry(frame, items) == FrameResult("classifier", frame, items, NoText)

\* frameResults.push({ frame: path.basename(f), error: err.message })
errorEntry(frame, message) == FrameResult("error", frame, NoItems, message)

Logged(s, op) == [s EXCEPT !.log = Append(@, op)]

\* toCleanup.push(p)
Pushed(s, p) == [s EXCEPT !.toCleanup = Append(@, p)]

\* a file or directory now exists locally
Made(s, p) == [s EXCEPT !.files = @ \cup {p}]

\* a call through retry() with the default attempts and baseDelay begins
Calling(s, site, op) ==
  [s EXCEPT !.pc = site,
            !.rt = retry_start(DefaultAttempts, DefaultBaseDelay),
            !.log = Append(@, op)]

\* (err && err.message) || String(err)
run_notes(err) == IF Message(err) # "" THEN Message(err) ELSE "Error"

FailureResult(err) ==
  [type |-> "failure", summary |-> "worker failed", notes |-> run_notes(err)]

\* patchReport(reportId, result, status) begins
Patching(s, site, result, status) ==
  [Calling(s, site, "patchReport")
     EXCEPT !.patches = Append(@, [status |-> status, result |-> result,
                                    outcome |-> "pending", applied |-> 0])]

\* the mutant: the error leaves run()
run_catch_rethrows(s, err) == [s EXCEPT !.thrown = err, !.pc = "exit1"]

\* catch (err) { ...; try { await patchReport(reportId, {...}, "failed") } ... }
run_catch(s, err) ==
  Patching([s EXCEPT !.caught = err], "patchF", FailureResult(err), "failed")

\* await patchReport(reportId, result, "completed")
run_persist(s, result) ==
  Patching([s EXCEPT !.result = result], "patchC", result, "completed")

\* finally { ... }: the last retry() call is over, its locals are gone
run_finally(s) == [s EXCEPT !.pc = "cleanup", !.rt = RetryOff]

\* the mutant: the failed patch is tried once more
run_swallow_patchesAgain(s) ==
  [s EXCEPT !.pc = "patchF",
            !.rt = retry_start(DefaultAttempts, DefaultBaseDelay),
            !.log = Append(@, "patchReport"),
            !.patches = Append(@, [s.patches[Len(s.patches)]
                                     EXCEPT !.outcome = "pending", !.applied = 0])]

\* catch (e) { console.error("Failed to patch failed:", e); }
run_swallow(s) == run_finally(s)

\* the mutant: the guard never skips
run_skips_never(report) == FALSE

\* if (report.status === "completed") { ...; return; }
run_skips(report) == report.status = "completed"

\* the mutant: an empty frame list goes on
analyzeDeepfake_noFrames_never(frames) == FALSE

\* if (!frames.length) throw new Error("No frames extracted")
analyzeDeepfake_noFrames(frames) == frames = 0

\* frames.slice(0, MAX_FRAMES).length
SampleSize(frames) == IF frames < MAX_FRAMES THEN frames ELSE MAX_FRAMES

\* the prompts: analyzeAudit's, analyzeDeepfake's reportPromptText, and the
\* fallbackPrompt of callHFReportModel, [instruction, "", promptText].join
AuditPrompt == <<"audit instruction", "MODEL METADATA">>
ReportPrompt == <<"report instruction", "AGGREGATED STATS", "SAMPLE FRAME RESULTS">>
FallbackPrompt(promptText) == <<"produce JSON instruction", "">> \o promptText

\* the mutant: the multimodal error leaves callHFReportModel
callHFReportModel_catch_rethrows(s, err) ==
  Calling([s EXCEPT !.mmErr = err, !.reportErr = err], "reportText", "callHFTextModel")

\* catch (err) { ...; return callHFTextModel(fallbackPrompt, HF_AUDIT_MODEL); }
callHFReportModel_catch(s, err) ==
  Calling([s EXCEPT !.mmErr = err, !.prompt = FallbackPrompt(s.prompt)],
          "reportFallback", "callHFTextModel")

\* node worker-hf.js <reportId>: run(id)
run_start(r) ==
  /\ w[r].pc = "idle"
  /\ w' = [w EXCEPT ![r] = Calling(@, "getReport", "getReport")]
  /\ UNCHANGED <<store, env>>

\* one axios.get of getReport: the store's answer, or no answer at all
getReport_attempt(r) ==
  /\ w[r].pc = "getReport"
  /\ w[r].rt.st = "call"
  /\ \E resp \in {reports_get(store, env)} \cup
                  (IF CanFail(w[r])
                   THEN {[kind |-> "http500", data |-> NoReport],
                         [kind |-> "network", data |-> NoReport]}
                   ELSE {}) :
       w' = [w EXCEPT ![r] =
               IF resp.kind = "ok"
               THEN [@ EXCEPT !.rt = retry_return(@), !.report = resp.data,
                              !.pc = "guard"]
               ELSE IF resp = reports_get(store, env)
               THEN [@ EXCEPT !.rt = retry_catch(@, Err(resp.kind, "getReport",
                                                        w[r].rt.calls))]
               ELSE [Failed(@) EXCEPT !.rt = retry_catch(@, Err(resp.kind, "getReport",
                                                                w[r].rt.calls))]]
  /\ UNCHANGED <<store, env>>

\* getReport threw: run() rejects, and the CLI entry exits with code 1
getReport_throw(r) ==
  /\ w[r].pc = "getReport"
  /\ w[r].rt.st = "throw"
  /\ w' = [w EXCEPT ![r].rt = retry_threw(@),
                    ![r].thrown = w[r].rt.lastErr,
                    ![r].pc = "exit1"]
  /\ UNCHANGED <<store, env>>

\* if (!report) throw ...; the idempotence guard; runId, toCleanup = []
run_guard(r) ==
  /\ w[r].pc = "guard"
  /\ w' = [w EXCEPT ![r] =
             IF ~w[r].report.exists
             THEN [@ EXCEPT !.thrown = Err("notFound", "run", 0), !.pc = "exit1"]
             ELSE IF run_skips(w[r].report)
             THEN [@ EXCEPT !.pc = "done"]
             ELSE [@ EXCEPT !.pc = "dispatch", !.toCleanup = <<>>]]
  /\ UNCHANGED <<store, env>>

\* the dispatch on report.type, up to the first awaited call of the pipeline
run_dispatch(r) ==
  /\ w[r].pc = "dispatch"
  /\ LET s == w[r] IN
     \E mkdirOk \in {TRUE} \cup (IF CanFail(s) THEN {FALSE} ELSE {}) :
       w' = [w EXCEPT ![r] =
               IF s.report.type = "deepfake"
               THEN IF s.report.fileUrl = "none"
                    THEN run_catch(s, Err("fileUrlMissing", "analyzeDeepfake", 0))
                    ELSE IF s.report.fileUrl # "gs://bucket/v.mp4"
                    THEN run_catch(Logged(s, "downloadFromGCS"),
                                   Err("invalidGsUri", "downloadFromGCS", 0))
                    ELSE IF ~mkdirOk
                    THEN run_catch(Logged(Failed(s), "downloadFromGCS"),
                                   Err("fs", "downloadFromGCS", 0))
                    ELSE Calling(s, "download", "downloadFromGCS")
               ELSE IF s.report.type = "audit"
               THEN Calling([s EXCEPT !.prompt = AuditPrompt],
                            "auditText", "callHFTextModel")
               ELSE run_catch(s, Err("unknownType", "run", 0))]
  /\ UNCHANGED <<store, env>>

\* one download of downloadFromGCS; a failed one may leave a partial file
download_attempt(r) ==
  /\ w[r].pc = "download"
  /\ w[r].rt.st = "call"
  /\ LET s == w[r] IN
     \/ w' = [w EXCEPT ![r] =
                [Pushed(Made(s, "video"), "video")
                   EXCEPT !.rt = retry_return(@), !.pc = "extract"]]
     \/ /\ CanFail(s)
        /\ \E partial \in BOOLEAN :
             w' = [w EXCEPT ![r] =
                     [(IF partial THEN Made(Failed(s), "video") ELSE Failed(s))
                        EXCEPT !.rt = retry_catch(@, Err("gcs", "download", s.rt.calls))]]
  /\ UNCHANGED <<store, env>>

\* extractFrames, toCleanup.push(framesDir), the zero-frames check, the sample
extractFrames_step(r) ==
  /\ w[r].pc = "extract"
  /\ LET s == Logged(w[r], "extractFrames") IN
     \/ /\ CanFail(s)
        /\ w' = [w EXCEPT ![r] = run_catch(Failed(s), Err("fs", "extractFrames", 0))]
     \/ /\ CanFail(s)
        /\ \E k \in {"ffmpeg", "fs"} :
             w' = [w EXCEPT ![r] =
                     run_catch(Made(Failed(s), "framesDir"), Err(k, "extractFrames", 0))]
     \/ \E f \in 0..MaxExtracted :
          LET t == [Pushed(Made(s, "framesDir"), "framesDir") EXCEPT !.frames = f] IN
          w' = [w EXCEPT ![r] =
                  IF analyzeDeepfake_noFrames(f)
                  THEN run_catch(t, Err("noFrames", "analyzeDeepfake", 0))
                  ELSE Calling([t EXCEPT !.sample = SampleSize(f),
                                         !.frameResults = <<>>],
                               "classify", "callHFFrameClassifier")]
  /\ UNCHANGED <<store, env>>

\* frameResults.push(...), then the next frame or, after the last one,
\* aggregateFrameResults, the prompt and callHFReportModel
analyzeDeepfake_pushed(s, fr) ==
  LET t == [s EXCEPT !.frameResults = Append(@, fr)] IN
  IF Len(t.frameResults) < t.sample
  THEN Calling(t, "classify", "callHFFrameClassifier")
  ELSE Calling(Logged([t EXCEPT !.agg = aggregateFrameResults(t.frameResults),
                               !.prompt = ReportPrompt],
                      "aggregateFrameResults"),
               "reportMM", "callHFReportModel")

\* (err && err.message) || "classifier error", as characters
classifierMessage(err) == Http503Message

\* the mutant: the frame's error ends the pipeline
analyzeDeepfake_caught_aborts(s, err) == run_catch(s, err)

\* catch (err) { frameResults.push({ frame: ..., error: ... }); }
analyzeDeepfake_caught(s, err) ==
  analyzeDeepfake_pushed(s, errorEntry(Len(s.frameResults) + 1, classifierMessage(err)))

\* one post of callHFFrameClassifier
classify_attempt(r) ==
  /\ w[r].pc = "classify"
  /\ w[r].rt.st = "call"
  /\ LET s == w[r] IN
     \/ \E items \in ClassifierData :
          w' = [w EXCEPT ![r] =
                  analyzeDeepfake_pushed([s EXCEPT !.rt = retry_return(@),
                                                   !.clf = Append(@, "returned")],
                    classifierEntry(Len(s.frameResults) + 1, items))]
     \/ /\ CanFail(s)
        /\ w' = [w EXCEPT ![r] =
                   [Failed(s) EXCEPT !.rt = retry_catch(@, Err("http503", "classify",
                                                            s.rt.calls))]]
  /\ UNCHANGED <<store, env>>

\* callHFFrameClassifier threw: the frame's error marker
classify_throw(r) ==
  /\ w[r].pc = "classify"
  /\ w[r].rt.st = "throw"
  /\ w' = [w EXCEPT ![r] =
             analyzeDeepfake_caught([w[r] EXCEPT !.rt = retry_threw(@),
                                                 !.clf = Append(@, "threw")],
                                    w[r].rt.lastErr)]
  /\ UNCHANGED <<store, env>>

\* the wrapper returned raw: JSON.parse and its fallback, then the local
\* diagnostic file is written next
pipeline_parsed(s, raw) ==
  [s EXCEPT !.rt = retry_return(@),
            !.raw = raw,
            !.rawSite = s.pc,
            !.parsed = IF s.report.type = "deepfake"
                       THEN analyzeDeepfake_parsed(raw, s.agg, s.frameResults)
                       ELSE analyzeAudit_parsed(raw),
            !.pc = "write"]

\* one post of the multimodal call of callHFReportModel
reportMM_attempt(r) ==
  /\ w[r].pc = "reportMM"
  /\ w[r].rt.st = "call"
  /\ \/ \E data \in Responses :
          w' = [w EXCEPT ![r] = pipeline_parsed(@, callHFReportModel_return(data))]
     \/ /\ CanFail(w[r])
        /\ w' = [w EXCEPT ![r] =
                   [Failed(@) EXCEPT !.rt = retry_catch(@, Err("http503", "reportMM",
                                                            w[r].rt.calls))]]
  /\ UNCHANGED <<store, env>>

\* the multimodal call threw: callHFReportModel falls back to callHFTextModel
reportMM_throw(r) ==
  /\ w[r].pc = "reportMM"
  /\ w[r].rt.st = "throw"
  /\ w' = [w EXCEPT ![r] =
             callHFReportModel_catch([@ EXCEPT !.rt = retry_threw(@)], w[r].rt.lastErr)]
  /\ UNCHANGED <<store, env>>

\* one post of callHFTextModel
textModel_attempt(r) ==
  /\ w[r].pc \in {"reportFallback", "reportText", "auditText"}
  /\ w[r].rt.st = "call"
  /\ \/ \E data \in Responses :
          w' = [w EXCEPT ![r] = pipeline_parsed(@, callHFTextModel_return(data))]
     \/ /\ CanFail(w[r])
        /\ w' = [w EXCEPT ![r] =
                   [Failed(@) EXCEPT !.rt = retry_catch(@, Err("http503", w[r].pc,
                                                            w[r].rt.calls))]]
  /\ UNCHANGED <<store, env>>

\* the fallback of callHFReportModel threw: analyzeDeepfake's own catch calls
\* callHFTextModel once more
reportFallback_throw(r) ==
  /\ w[r].pc = "reportFallback"
  /\ w[r].rt.st = "throw"
  /\ w' = [w EXCEPT ![r] =
             Calling([@ EXCEPT !.rt = retry_threw(@),
                               !.reportErr = w[r].rt.lastErr,
                               !.prompt = ReportPrompt],
                     "reportText", "callHFTextModel")]
  /\ UNCHANGED <<store, env>>

\* a call of the pipeline threw and nothing in the pipeline catches it
pipeline_throw(r) ==
  /\ w[r].pc \in {"download", "reportText", "auditText", "upload"}
  /\ w[r].rt.st = "throw"
  /\ w' = [w EXCEPT ![r] =
             run_catch([@ EXCEPT !.rt = retry_threw(@)], w[r].rt.lastErr)]
  /\ UNCHANGED <<store, env>>

\* the local file the pipeline uploads
LocalArtifact(s) == IF s.report.type = "deepfake" THEN "diag" ELSE "auditRaw"

\* fs.promises.writeFile(local, ...); toCleanup.push(local); uploadToGCS begins
pipeline_write(r) ==
  /\ w[r].pc = "write"
  /\ LET s == w[r] IN
     \/ w' = [w EXCEPT ![r] =
                Calling(Pushed(Made(s, LocalArtifact(s)), LocalArtifact(s)),
                        "upload", "uploadToGCS")]
     \/ /\ CanFail(s)
        /\ \E partial \in BOOLEAN :
             w' = [w EXCEPT ![r] =
                     run_catch(IF partial THEN Made(Failed(s), LocalArtifact(s))
                               ELSE Failed(s),
                               Err("fs", "writeFile", 0))]
  /\ UNCHANGED <<store, env>>

\* the rest of the pipeline once the artifact is uploaded
pipeline_return(s) ==
  IF s.report.type = "deepfake"
  THEN analyzeDeepfake_return(s.parsed, s.agg)
  ELSE analyzeAudit_return(s.parsed)

\* the result object the pipeline returns, as the body of a PATCH
PipelineResult(s) == [type |-> "result", json |-> pipeline_return(s).value]

\* one upload of uploadToGCS; then the result is built and run() patches it
upload_attempt(r) ==
  /\ w[r].pc = "upload"
  /\ w[r].rt.st = "call"
  /\ LET s == w[r] IN
     \/ w' = [w EXCEPT ![r] =
                LET t == [s EXCEPT !.rt = retry_return(@)] IN
                IF pipeline_return(t).threw
                THEN run_catch(t, pipeline_return(t).err)
                ELSE run_persist(t, PipelineResult(t))]
     \/ /\ CanFail(s)
        /\ w' = [w EXCEPT ![r] =
                   [Failed(s) EXCEPT !.rt = retry_catch(@, Err("gcs", "upload",
                                                            s.rt.calls))]]
  /\ UNCHANGED <<store, env>>

\* the patch operation in progress
CurPatch(s) == s.patches[Len(s.patches)]

PatchOutcome(s, o) == [s EXCEPT !.patches[Len(s.patches)].outcome = o]

PatchApplied(s) == [s EXCEPT !.patches[Len(s.patches)].applied = @ + 1]

\* one axios.patch of patchReport: the request is lost, or the store refuses
\* it, or the store saves the report and the response arrives, or the store
\* saves the report and the response does not arrive within the timeout
patchReport_attempt(r) ==
  /\ w[r].pc \in {"patchC", "patchF"}
  /\ w[r].rt.st = "call"
  /\ LET s == w[r]
         body == [result |-> CurPatch(s).result, status |-> CurPatch(s).status]
         resp == reports_patch(store, env, body)
         fails(k) == [s EXCEPT !.rt = retry_catch(@, Err(k, "patchReport", s.rt.calls))]
     IN
     \/ /\ CanFail(s)
        /\ \E k \in {"network", "http500"} :
             /\ w' = [w EXCEPT ![r] = Failed(fails(k))]
             /\ store' = store
     \/ /\ resp.kind # "ok"
        /\ w' = [w EXCEPT ![r] = fails(resp.kind)]
        /\ store' = store
     \/ /\ resp.kind = "ok"
        /\ store' = [resp.store EXCEPT !.last = [run |-> r, op |-> Len(s.patches)]]
        /\ \/ w' = [w EXCEPT ![r] =
                      run_finally(PatchOutcome(PatchApplied(
                        [s EXCEPT !.rt = retry_return(@)]), "ok"))]
           \/ /\ CanFail(s)
              /\ w' = [w EXCEPT ![r] = Failed(PatchApplied(fails("timeout")))]
  /\ UNCHANGED env

\* patchReport threw: the completed patch's error goes to run()'s catch, the
\* failed patch's error is logged and swallowed
patchReport_throw(r) ==
  /\ w[r].pc \in {"patchC", "patchF"}
  /\ w[r].rt.st = "throw"
  /\ LET s == PatchOutcome([w[r] EXCEPT !.rt = retry_threw(@)], "threw") IN
     w' = [w EXCEPT ![r] =
             IF w[r].pc = "patchC" THEN run_catch(s, w[r].rt.lastErr)
             ELSE run_swallow(s)]
  /\ UNCHANGED <<store, env>>

\* the mutant: the first registered path is skipped
run_cleanupPaths_skipsFirst(toCleanup) ==
  IF toCleanup = <<>> THEN {} ELSE Range(Tail(toCleanup))

\* toCleanup.map(p => fs.promises.rm(p, ...)): the paths removal is tried for
run_cleanupPaths(toCleanup) == Range(toCleanup)

\* Promise.all(toCleanup.map(p => fs.promises.rm(p, ...).catch(() => {})))
run_cleanup(r) ==
  /\ w[r].pc = "cleanup"
  /\ \E failed \in SUBSET run_cleanupPaths(w[r].toCleanup) :
       /\ failed # {} => CanFail(w[r])
       /\ w' = [w EXCEPT ![r] =
                  [(IF failed # {} THEN Failed(@) ELSE @)
                     EXCEPT !.rmTried = run_cleanupPaths(w[r].toCleanup),
                            !.files = @ \ (run_cleanupPaths(w[r].toCleanup) \ failed),
                            !.log = Append(@, "cleanup"),
                            !.pc = "done"]]
  /\ UNCHANGED <<store, env>>

Step(r) ==
  \/ getReport_attempt(r) \/ getReport_throw(r) \/ retry_sleep(r)
  \/ run_guard(r) \/ run_dispatch(r)
  \/ download_attempt(r) \/ extractFrames_step(r)
  \/ classify_attempt(r) \/ classify_throw(r)
  \/ reportMM_attempt(r) \/ reportMM_throw(r)
  \/ textModel_attempt(r) \/ reportFallback_throw(r)
  \/ pipeline_throw(r) \/ pipeline_write(r) \/ upload_attempt(r)
  \/ patchReport_attempt(r) \/ patchReport_throw(r)
  \/ run_cleanup(r)

(***************************************************************************)
(* One invocation of the worker against the store's report, in any         *)
(* deployment and with the report in any state the store can hold.         *)
(***************************************************************************)
Init ==
  /\ store \in {NoReport} \cup
       {rep \in Reports : rep.type = "deepfake" \/ rep.fileUrl = "none"}
  /\ env \in {e \in Envs : store.exists => e.idValid}
  /\ w = [r \in Runs |-> Idle]

Next == run_start("r1") \/ Step("r1")

Spec == Init /\ [][Next]_vars

(***************************************************************************)
(* One invocation whose steps are all taken in the end: every external     *)
(* call returns or fails, every timer fires, and the event loop runs every *)
(* continuation.  The store is not left failed by an earlier run and the   *)
(* service key is one the store accepts.                                   *)
(***************************************************************************)
InitFair ==
  /\ Init
  /\ env.svcKeyValid
  /\ store.exists => store.status # "failed"

SpecFair == InitFair /\ [][Next]_vars /\ WF_vars(Next)

(***************************************************************************)
(* Two invocations of the worker against the same pending audit report,    *)
(* with credentials the store accepts.  Each run meets at most MaxFaults   *)
(* failures of its environment, so no retry() call of DefaultAttempts      *)
(* attempts is exhausted and the steps after an exhausted call are left    *)
(* out.                                                                    *)
(***************************************************************************)
MaxFaults == 1

InitConc ==
  /\ store \in {rep \in Reports : /\ rep.type = "audit"
                                  /\ rep.fileUrl = "none"
                                  /\ rep.status = "pending"}
  /\ env \in {e \in Envs : /\ e.svcKeyValid
                          /\ e.idValid
                          /\ e.svcJwtUid = store.ownerUid}
  /\ w = [r \in Runs |-> [Idle EXCEPT !.faults = AtMost(MaxFaults)]]

StepConc(r) ==
  \/ run_start(r)
  \/ getReport_attempt(r) \/ retry_sleep(r)
  \/ run_guard(r) \/ run_dispatch(r)
  \/ textModel_attempt(r)
  \/ pipeline_write(r) \/ upload_attempt(r)
  \/ patchReport_attempt(r)
  \/ run_cleanup(r)

NextConc == StepConc("r1") \/ StepConc("r2")

SpecConc == InitConc /\ [][NextConc]_vars

(***************************************************************************)
(* A client of the store's PATCH /reports/{id}: the worker or a user, by   *)
(* the credential of env, sending up to MaxPatches requests with any body  *)
(* to a report in any stored state.  The client keeps the report as it was *)
(* at first and, for each request, the body, the answer and the report     *)
(* before and after.                                                       *)
(***************************************************************************)
MaxPatches == 2

Metadatas == {"none", "m1"}

Procs == Runs \cup {"client"}

Client(pc, created) == [pc |-> pc, created |-> created, sent |-> <<>>]

InitStore ==
  /\ store \in {NoReport} \cup
       {[rep EXCEPT !.metadata = m] : rep \in Reports, m \in Metadatas}
  /\ env \in Envs
  /\ w = [p \in Procs |-> IF p = "client" THEN Client("patching", store) ELSE Idle]

\* one PATCH /reports/{id} of the client, handled by the store
patch_request ==
  /\ w["client"].pc = "patching"
  /\ Len(w["client"].sent) < MaxPatches
  /\ \E body \in PatchBodies :
       LET resp == reports_patch(store, env, body)
           saved == IF resp.kind = "ok"
                    THEN [resp.store EXCEPT !.last = [run |-> "client",
                                                      op |-> Len(w["client"].sent) + 1]]
                    ELSE store
       IN /\ store' = saved
          /\ w' = [w EXCEPT !["client"].sent =
                     Append(@, [body |-> body, kind |-> resp.kind,
                                before |-> store, after |-> saved])]
  /\ env' = env

NextStore == patch_request

SpecStore == InitStore /\ [][NextStore]_vars

(***************************************************************************)
(* The creation of a report through POST /reports/audit or                 *)
(* POST /reports/deepfake by its owner, and a worker run against the       *)
(* report once the client has its id from the 201 response.  The run is    *)
(* followed up to its guard.                                               *)
(***************************************************************************)
InitCreate ==
  /\ store = NoReport
  /\ env \in Envs
  /\ w = [p \in Procs |-> IF p = "client" THEN Client("posting", NoReport) ELSE Idle]

\* Report.create({ type, ownerUid, ..., status: "pending", result: {} }), or
\* its rejection, answered 500
post_create ==
  /\ w["client"].pc = "posting"
  /\ \/ /\ \E t \in {"audit", "deepfake"}, f \in FileUrls, m \in Metadatas :
             store' = [exists |-> TRUE, type |-> t, ownerUid |-> "u1", fileUrl |-> f,
                       status |-> "pending", metadata |-> m, result |-> EmptyResult,
                       last |-> NoWrite]
        /\ w' = [w EXCEPT !["client"].pc = "inserted"]
     \/ /\ store' = store
        /\ w' = [w EXCEPT !["client"].pc = "http500"]
  /\ env' = env

\* report.result = generateMockResult(type); report.status = "completed";
\* await report.save(); res.status(201).json(report), or the rejection of
\* save, answered 500
post_save ==
  /\ w["client"].pc = "inserted"
  /\ \/ /\ store' = [store EXCEPT !.result = MockResult, !.status = "completed"]
        /\ w' = [w EXCEPT !["client"].pc = "created", !["client"].created = store']
     \/ /\ store' = store
        /\ w' = [w EXCEPT !["client"].pc = "http500"]
  /\ env' = env

\* node worker-hf.js <reportId>, with the id of the 201 response
worker_start(r) ==
  /\ w["client"].pc = "created"
  /\ run_start(r)

NextCreate ==
  \/ post_create \/ post_save
  \/ worker_start("r1")
  \/ getReport_attempt("r1") \/ retry_sleep("r1") \/ getReport_throw("r1")
  \/ run_guard("r1")

SpecCreate == InitCreate /\ [][NextCreate]_vars

(***************************************************************************)
(* The worker's pure functions, each applied once to an input drawn from   *)
(* the shapes it accepts: aggregateFrameResults, the parsing and result    *)
(* building of the two pipelines, and the choice of the sample.            *)
(***************************************************************************)
MaxFrameResults == 3
MaxVoteFrames == 10

Label_Fake == <<"F", "a", "k", "e">>
Label_Real == <<"R", "e", "a", "l">>
Label_Synthetic == <<"S", "Y", "N", "T", "H", "E", "T", "I", "C">>

\* per-frame results of every accepted shape
FrameResultShapes ==
  {FrameResult("null", 0, NoItems, NoText),
   FrameResult("classifier", 1, <<Item(Label_Fake, TRUE, 900)>>, NoText),
   FrameResult("classifier", 1, <<Item(Label_Real, TRUE, 800)>>, NoText),
   FrameResult("classifier", 1, <<Item(Label_Real, TRUE, 0)>>, NoText),
   FrameResult("classifier", 1, <<Item(Label_Synthetic, FALSE, 0)>>, NoText),
   FrameResult("classifier", 1, <<Item(Label_Real, TRUE, 4)>>, NoText),
   FrameResult("classifier", 1, NoItems, NoText),
   FrameResult("text", 0, NoItems, <<"F", "a", "k", "e", ",", " ", "c", "o", "n", "f", "i", "d", "e", "n", "c", "e", ":", " ", "9", "9", "9">>),
   FrameResult("text", 0, NoItems, <<"r", "e", "a", "l", " ", "c", "o", "n", "f", "i", "d", "e", "n", "c", "e", "=", "0">>),
   FrameResult("text", 0, NoItems, <<"R", "e", "a", "l", ".", " ", "C", "o", "n", "f", "i", "d", "e", "n", "c", "e", ":", " ", " ", "8", "7">>),
   FrameResult("opaque", 1, NoItems, <<"{", "\"", "x", "\"", ":", "\"", "M", "a", "n", "i", "p", "u", "l", "a", "t", "e", "d", "\"", "}">>),
   errorEntry(1, Http503Message)}

RECURSIVE SeqsUpTo(_, _)
\* the sequences over S of length 1..n
SeqsUpTo(S, n) ==
  IF n = 0 THEN {}
  ELSE LET shorter == SeqsUpTo(S, n - 1) IN
       {<<x>> : x \in S} \cup shorter \cup
       {Append(q, x) : q \in {t \in shorter : Len(t) = n - 1}, x \in S}

\* n results of which the first k are labelled fake and the others real
Votes(k, n) ==
  [j \in 1..n |->
     FrameResult("classifier", j,
                 <<Item(IF j <= k THEN Label_Fake ELSE Label_Real, TRUE, 900)>>, NoText)]

FrameResultSeqs ==
  SeqsUpTo(FrameResultShapes, MaxFrameResults) \cup
  {Votes(k, n) : k \in 0..MaxVoteFrames, n \in 1..MaxVoteFrames}

\* the objects a synthesis report can be: each field carried or not,
\* confidence also carried as 0
ReportObjects ==
  {JObj([EmptyFields EXCEPT !.summary = sm, !.type = ty, !.verdict = vd,
                            !.confidence = cf]) :
     sm \in {Undefined, JStr(Text("Two frames look synthetic", 25))},
     ty \in {Undefined, JStr(Text("deepfake", 8))},
     vd \in {Undefined, JStr(Text("likely_real", 11))},
     cf \in {Undefined, JNum(0), JNum(77)}}

JsonValues ==
  ReportObjects \cup
  {JNull, JNum(5), JNum(0), JStr(Text("hi", 2)), JArr(0), JArr(2)}

\* every response: prose, JSON text as a string or as generated text, and
\* JSON bodies
AllResponses ==
  {DataString(Text("not json", 8), Invalid),
   DataString(Text("long prose", SummaryMax + 1), Invalid),
   DataString(Text("", 0), Invalid)}
  \cup {DataGenerated(Text("JSON text", 9), v) : v \in JsonValues}
  \cup {DataJson(v) : v \in JsonValues}

RECURSIVE Orders(_)
\* the orders a set can be listed in
Orders(S) ==
  IF S = {} THEN {<<>>}
  ELSE UNION {{<<x>> \o q : q \in Orders(S \ {x})} : x \in S}

\* the frames a directory listing holds: frame-000001.jpg ... in any order
Listings == UNION {Orders(1..f) : f \in 0..MaxExtracted}

\* const sample = frames.slice(0, MAX_FRAMES)
sampleOf(frames) == slice0(frames, MAX_FRAMES)

Pure(pc) == [r \in Runs |-> IF r = "r1" THEN [Idle EXCEPT !.pc = pc] ELSE Idle]

InitPure ==
  /\ store = NoReport
  /\ env = [svcKeyValid |-> TRUE, svcJwtUid |-> "none", idValid |-> TRUE]
  /\ \/ \E frs \in FrameResultSeqs :
          w = [Pure("aggregate") EXCEPT !["r1"].frameResults = frs]
     \/ \E data \in AllResponses :
          w = [Pure("audit") EXCEPT !["r1"].data = data]
     \/ \E data \in AllResponses, mm \in BOOLEAN,
           frs \in {Votes(0, 1), Votes(1, 2), <<errorEntry(1, Http503Message)>>} :
          w = [Pure(IF mm THEN "deepfakeMM" ELSE "deepfakeText")
                 EXCEPT !["r1"].data = data, !["r1"].frameResults = frs]
     \/ \E listing \in Listings :
          w = [Pure("sample") EXCEPT !["r1"].listing = listing]

\* const agg = aggregateFrameResults(frameResults)
apply_aggregateFrameResults(r) ==
  /\ w[r].pc = "aggregate"
  /\ w' = [w EXCEPT ![r].agg = aggregateFrameResults(w[r].frameResults),
                    ![r].pc = "applied"]
  /\ UNCHANGED <<store, env>>

\* the outcome of a pipeline, kept in result or in thrown
Outcome(s, out) ==
  IF out.threw THEN [s EXCEPT !.thrown = out.err, !.pc = "applied"]
  ELSE [s EXCEPT !.result = [type |-> "result", json |-> out.value], !.pc = "applied"]

\* analyzeAudit from the response of callHFTextModel on
apply_analyzeAudit(r) ==
  /\ w[r].pc = "audit"
  /\ LET raw == callHFTextModel_return(w[r].data)
         parsed == analyzeAudit_parsed(raw)
     IN w' = [w EXCEPT ![r] =
                Outcome([@ EXCEPT !.raw = raw, !.parsed = parsed],
                        analyzeAudit_return(parsed))]
  /\ UNCHANGED <<store, env>>

\* analyzeDeepfake from the aggregation on, the report coming from the
\* multimodal call or from callHFTextModel
apply_analyzeDeepfake(r) ==
  /\ w[r].pc \in {"deepfakeMM", "deepfakeText"}
  /\ LET agg == aggregateFrameResults(w[r].frameResults)
         raw == IF w[r].pc = "deepfakeMM" THEN callHFReportModel_return(w[r].data)
                ELSE callHFTextModel_return(w[r].data)
         parsed == analyzeDeepfake_parsed(raw, agg, w[r].frameResults)
     IN w' = [w EXCEPT ![r] =
                Outcome([@ EXCEPT !.agg = agg, !.raw = raw, !.parsed = parsed],
                        analyzeDeepfake_return(parsed, agg))]
  /\ UNCHANGED <<store, env>>

\* extractFrames resolved with the listing: the sample is taken
apply_sampleOf(r) ==
  /\ w[r].pc = "sample"
  /\ w' = [w EXCEPT ![r].sampled = sampleOf(w[r].listing), ![r].pc = "applied"]
  /\ UNCHANGED <<store, env>>

NextPure ==
  \/ apply_aggregateFrameResults("r1")
  \/ apply_analyzeAudit("r1")
  \/ apply_analyzeDeepfake("r1")
  \/ apply_sampleOf("r1")

SpecPure == InitPure /\ [][NextPure]_vars


(***************************************************************************)
(* The claims.                                                             *)
(***************************************************************************)
\* the run fetched a report that is not completed and went past the guard
PassedGuard(s) ==
  /\ s.report.exists
  /\ s.report.status # "completed"
  /\ s.pc \notin {"idle", "getReport", "guard"}

\* the status the store holds after the patches this run had applied
ExpectedStatus(s) ==
  LET applied == {j \in 1..Len(s.patches) : s.patches[j].applied > 0} IN
  IF applied = {} THEN s.report.status
  ELSE s.patches[CHOOSE j \in applied : \A k \in applied : k <= j].status

PipelineOps ==
  {"downloadFromGCS", "extractFrames", "callHFFrameClassifier",
   "aggregateFrameResults", "callHFReportModel", "callHFTextModel", "uploadToGCS"}

\* C1: for every maxAttempts >= 1, retry returns the result of the first
\* invocation that succeeds and invokes the operation no more after it (the
\* returning invocation is the last one made, and every earlier one failed);
\* if all maxAttempts invocations fail, the operation was invoked exactly
\* maxAttempts times and the error thrown is the last invocation's own.
C1_RetryReturnsFirstSuccessOrThrowsLastError ==
  \A r \in Runs :
    LET s == w[r] IN
    /\ s.pc = "fn_returned" =>
         /\ s.rt.calls = Len(s.rt.errs) + 1
         /\ s.rt.calls <= s.rt.attempts
         /\ s.ret.n = s.rt.calls - 1
         /\ s.ret.val \in FnValues
         /\ s.thrown = NoErr
    /\ s.pc = "fn_threw" =>
         /\ s.rt.calls = s.rt.attempts
         /\ Len(s.rt.errs) = s.rt.attempts
         /\ s.thrown = s.rt.errs[s.rt.attempts]
         /\ s.thrown.n = s.rt.attempts - 1
         /\ s.ret = NoVal
    /\ s.pc = "fn" => s.rt.calls = Len(s.rt.errs) /\ s.rt.calls <= s.rt.attempts

\* three attempts failed with errors of different kinds, and retry threw
C1_Witness ==
  \E r \in Runs :
    /\ w[r].pc = "fn_threw"
    /\ w[r].rt.attempts = 3
    /\ w[r].rt.errs[1].kind # w[r].rt.errs[3].kind

\* C2: a retry call that made n attempts performed exactly n-1 waits, the
\* j-th of baseDelay * 2^(j-1), when its result or error is delivered: no
\* wait follows the final attempt.
C2_WaitsOnlyBetweenAttempts ==
  \A r \in Runs :
    LET s == w[r] IN
    s.pc \in {"fn_returned", "fn_threw"} =>
      /\ Len(s.rt.waits) = s.rt.calls - 1
      /\ \A j \in 1..Len(s.rt.waits) : s.rt.waits[j] = s.rt.baseDelay * (2 ^ (j - 1))

\* C3: a run whose fetched report is completed ends normally with no patch
\* issued, no pipeline, inference, storage or extraction operation called,
\* and the stored report as it was.
C3_CompletedReportIsSkipped ==
  \A r \in Runs :
    LET s == w[r] IN
    (s.report.exists /\ s.report.status = "completed") =>
      /\ s.pc \in {"guard", "done"}
      /\ s.patches = <<>>
      /\ s.log = <<"getReport">>
      /\ s.thrown = NoErr
      /\ store = s.report

C3_Witness ==
  \E r \in Runs :
    /\ w[r].pc = "done"
    /\ w[r].report.exists
    /\ w[r].report.status = "completed"

\* C4: a run whose fetched report is completed or failed dispatches no
\* pipeline and issues no patch.
C4_TerminalReportIsNotReprocessed ==
  \A r \in Runs :
    LET s == w[r] IN
    (s.report.exists /\ s.report.status \in {"completed", "failed"}) =>
      /\ s.patches = <<>>
      /\ Range(s.log) \cap PipelineOps = {}

\* C5: a run past the guard has, when it ends, performed exactly one patch
\* operation: completed when the pipeline returned a result, failed
\* otherwise.
C5_ExactlyOnePatch ==
  \A r \in Runs :
    LET s == w[r] IN
    (PassedGuard(s) /\ s.pc = "done") =>
      /\ Len(s.patches) = 1
      /\ s.patches[1].status =
           IF s.result # EmptyResult THEN "completed" ELSE "failed"

FailurePatchThrew(s) ==
  \E j \in 1..Len(s.patches) :
    s.patches[j].status = "failed" /\ s.patches[j].outcome = "threw"

\* the stored status when the run's last patch operation began
StatusBeforeLastPatch(s) ==
  ExpectedStatus([s EXCEPT !.patches = SubSeq(@, 1, Len(@) - 1)])

\* C7 as stated: when the failed patch itself failed, the stored status is as
\* it was before that patch.
C7_FailedFailurePatchLeavesStatus ==
  \A r \in Runs :
    LET s == w[r] IN
    (PassedGuard(s) /\ FailurePatchThrew(s)) =>
      store.status = StatusBeforeLastPatch(s)

\* C7 as amended: when the failed patch itself failed, the run makes no
\* further patch attempt (that patch is its last, and no retry call is in
\* progress), does not raise, performs cleanup and ends normally; the stored
\* status is as it was before that patch when the store applied none of its
\* attempts, and failed when the store applied one whose response never
\* reached the worker.
C7_FailedFailurePatchIsSwallowed ==
  \A r \in Runs :
    LET s == w[r] IN
    (PassedGuard(s) /\ FailurePatchThrew(s)) =>
      /\ \A j \in 1..Len(s.patches) :
           (s.patches[j].status = "failed" /\ s.patches[j].outcome = "threw")
             => j = Len(s.patches)
      /\ Cardinality({j \in 1..Len(s.log) : s.log[j] = "patchReport"})
           = Len(s.patches)
      /\ s.pc \in {"cleanup", "done"}
      /\ s.rt = RetryOff
      /\ s.thrown = NoErr
      /\ s.pc = "done" => s.rmTried = Range(s.toCleanup)
      /\ store.status =
           IF s.patches[Len(s.patches)].applied = 0
           THEN StatusBeforeLastPatch(s) ELSE "failed"

\* the failed patch threw with none of its attempts applied, after a file
\* was registered for cleanup
C7_Witness ==
  \E r \in Runs :
    /\ w[r].pc = "done"
    /\ FailurePatchThrew(w[r])
    /\ w[r].patches[Len(w[r].patches)].applied = 0
    /\ w[r].toCleanup # <<>>
    /\ store.status = "pending"

\* C8: when the fetch of the report failed, one failed patch was attempted
\* before the process ended.
C8_FetchFailureIsPatched ==
  \A r \in Runs :
    LET s == w[r] IN
    s.pc = "exit1" =>
      /\ Len(s.patches) = 1
      /\ s.patches[1].status = "failed"

ZeroFrames(s) ==
  /\ s.report.exists
  /\ s.report.type = "deepfake"
  /\ "framesDir" \in Range(s.toCleanup)
  /\ s.frames = 0

\* C10: a deepfake run whose extraction yields zero frames calls neither the
\* classifier nor the aggregator nor a report or text model, never issues a
\* completed patch, does not raise, and issues one failed patch (No frames
\* extracted); when that patch succeeds the stored status is failed.
C10_ZeroFramesFailsTheRun ==
  \A r \in Runs :
    LET s == w[r] IN
    ZeroFrames(s) =>
      /\ Range(s.log) \cap {"callHFFrameClassifier", "aggregateFrameResults",
                            "callHFReportModel", "callHFTextModel",
                            "uploadToGCS"} = {}
      /\ s.frameResults = <<>>
      /\ s.result = EmptyResult
      /\ s.thrown = NoErr
      /\ s.caught.kind = "noFrames"
      /\ Len(s.patches) = 1
      /\ s.patches[1].status = "failed"
      /\ s.patches[1].result.notes = "No frames extracted"
      /\ s.patches[1].outcome = "ok" => store.status = "failed"

C10_Witness ==
  \E r \in Runs :
    /\ w[r].pc = "done"
    /\ ZeroFrames(w[r])
    /\ w[r].patches[1].outcome = "ok"
    /\ store.status = "failed"



\* the wrapper returned a string that JSON.parse rejects
NotJsonResponse(s) == s.raw.k = "string" /\ s.raw.json = Invalid

\* the first 1000 characters of a text
First1000(text) == IF text.len <= 1000 THEN text ELSE Text(text.id, 1000)

\* the placeholder result of the audit pipeline with the given summary
PlaceholderAudit(summary) ==
  JObj([EmptyFields EXCEPT
          !.summary = JStr(summary),
          !.type = JStr(Text("audit", 5)),
          !.scores = JObj([EmptyFields EXCEPT !.transparency = JNum(60),
                                              !.fairness = JNum(50),
                                              !.privacy = JNum(60),
                                              !.robustness = JNum(55)]),
          !.metrics = EmptyObject,
          !.flagged_issues = JArr(0),
          !.recommendations = JArr(0),
          !.artifacts = JObj([EmptyFields EXCEPT !.raw_output = JStr(AuditArtifact)])])

\* a run whose response was not JSON: only a failure of writing or uploading
\* the artifact or of the patch is caught, the result has the given summary
\* (audit, deepfake), and a run that ends with nothing caught left the report
\* completed with that result
ParseFailureHandled(s, auditSummary, deepfakeSummary) ==
  LET agg == s.agg IN
  /\ s.caught # NoErr => s.caught.site \in {"writeFile", "upload", "patchReport"}
  /\ s.result # EmptyResult =>
       /\ s.patches[1].status = "completed"
       /\ s.patches[1].result = s.result
       /\ s.result.json.f.summary \notin {JNull, Undefined}
       /\ IF s.report.type = "audit"
          THEN s.result.json = PlaceholderAudit(auditSummary)
          ELSE /\ s.result.json.f.summary = JStr(deepfakeSummary)
               /\ s.result.json.f.verdict = JStr(Text(agg.verdict, Len(agg.verdict)))
               /\ s.result.json.f.confidence = JNum(agg.confidence)
  /\ (s.pc = "done" /\ s.caught = NoErr) =>
       /\ s.result # EmptyResult
       /\ store.status = "completed"
       /\ store.result = s.result

\* C11 as stated: when the model response is a string that is not valid
\* JSON, neither pipeline raises; the audit result is the placeholder object
\* whose summary is the response text, plus artifacts.raw_output; the
\* deepfake result has the response text as summary and the Aggregator's
\* verdict and confidence; the summary is non-null and the run ends with
\* status completed.
C11_SummaryIsTheResponseText ==
  \A r \in Runs :
    LET s == w[r] IN
    NotJsonResponse(s) => ParseFailureHandled(s, s.raw.text, s.raw.text)

\* C11, amended: the same, with the summary being the first 1000 characters
\* of the response text, and in the deepfake result the default line
\* "Deepfake analysis: ${verdict} (conf ${confidence})" when the response text
\* is empty; the run ends with status completed when the artifact is written
\* and uploaded and the completed patch succeeds.
C11_SummaryIsFirst1000Characters ==
  \A r \in Runs :
    LET s == w[r] IN
    NotJsonResponse(s) =>
      ParseFailureHandled(s, First1000(s.raw.text),
        IF s.raw.text.len = 0
        THEN DefaultSummary(s.agg)
        ELSE First1000(s.raw.text))

\* a deepfake run got a response longer than 1000 characters that is not
\* JSON, and ended with the report completed
C11_Witness ==
  \E r \in Runs :
    /\ NotJsonResponse(w[r])
    /\ w[r].raw.text.len > 1000
    /\ w[r].report.type = "deepfake"
    /\ w[r].pc = "done"
    /\ w[r].caught = NoErr
    /\ store.status = "completed"

\* the wrapper returned a value JSON.parse accepts, or a parsed JSON body
ParsesAsJson(s) ==
  \/ s.raw.k = "string" /\ s.raw.json # Invalid
  \/ s.raw.k = "value"

\* the pipeline applied on its own was the deepfake one
AppliedDeepfake(s) == s.pc = "applied" /\ s.agg # NoAgg /\ s.data # NoData
AppliedAudit(s) == s.pc = "applied" /\ s.agg = NoAgg /\ s.data # NoData

\* C12: for every model response that parses as JSON, whatever its shape
\* (an object lacking summary or type, an empty object, null, a number, a
\* string literal, an array), both pipelines return without raising a result
\* object that carries a summary field and a type field ("audit" or
\* "deepfake" respectively).
C12_JsonResponseYieldsSummaryAndType ==
  \A r \in Runs :
    LET s == w[r] IN
    ((AppliedAudit(s) \/ AppliedDeepfake(s)) /\ ParsesAsJson(s)) =>
      /\ s.thrown = NoErr
      /\ carries(s.result.json, "summary")
      /\ get(s.result.json, "type") =
           JStr(IF AppliedAudit(s) THEN Text("audit", 5) ELSE Text("deepfake", 8))

\* C13: callHFReportModel never propagates an error of its multimodal call:
\* when that call has failed (after its retries) the next operation is
\* callHFTextModel with the JSON instruction put before the report prompt,
\* the report then used is that call's result, and an error that leaves
\* callHFReportModel was raised by the text fallback.
C13_MultimodalErrorIsNeverPropagated ==
  \A r \in Runs :
    LET s == w[r]
        k == CHOOSE j \in 1..Len(s.log) : s.log[j] = "callHFReportModel"
    IN
    /\ s.reportErr # NoErr =>
         /\ s.reportErr.site = "reportFallback"
         /\ s.reportErr # s.mmErr
    /\ s.mmErr # NoErr =>
         /\ s.mmErr.site = "reportMM"
         /\ s.log[k + 1] = "callHFTextModel"
         /\ s.pc = "reportFallback" =>
              s.prompt = <<"produce JSON instruction", "">> \o ReportPrompt
         /\ s.caught # NoErr => s.caught # s.mmErr
         /\ s.raw # NoRaw =>
              /\ s.rawSite \in {"reportFallback", "reportText"}
              /\ s.raw.k = "string"
              /\ s.rawSite = "reportText" <=> s.reportErr # NoErr
    /\ (s.raw # NoRaw /\ s.rawSite = "reportMM") => s.mmErr = NoErr

\* the multimodal call failed three times, the text fallback answered, and
\* the run left the report completed
C13_Witness ==
  \E r \in Runs :
    /\ w[r].mmErr # NoErr
    /\ w[r].rawSite = "reportFallback"
    /\ w[r].pc = "done"
    /\ w[r].caught = NoErr
    /\ store.status = "completed"

\* aggregateFrameResults was applied on its own to a non-empty sequence
AppliedAggregate(s) ==
  s.pc = "applied" /\ s.agg # NoAgg /\ s.data = NoData /\ s.frameResults # <<>>

\* C14: for every non-empty sequence of per-frame results of any of the
\* accepted shapes, the Aggregator returns ratio in [0,1] and confidence in
\* [0,100].
C14_RatioAndConfidenceInRange ==
  \A r \in Runs :
    LET s == w[r] IN
    AppliedAggregate(s) =>
      /\ s.agg.ratio.den > 0
      /\ 0 <= s.agg.ratio.num
      /\ s.agg.ratio.num <= s.agg.ratio.den
      /\ 0 <= s.agg.confidence
      /\ s.agg.confidence <= 100

\* C15: the Aggregator's verdict is a function of ratio = fakeVotes / total
\* alone: likely_fake exactly when ratio > 0.4 (5 * fakeVotes > 2 * total),
\* likely_real exactly when ratio < 0.1 (10 * fakeVotes < total),
\* inconclusive otherwise; 2 of 5 and 1 of 10 give inconclusive, and 2 fake
\* votes out of 3 frames give ratio 2/3 and likely_fake.
C15_VerdictFollowsRatio ==
  \A r \in Runs :
    LET s == w[r]
        num == s.agg.ratio.num
        den == s.agg.ratio.den
    IN
    AppliedAggregate(s) =>
      /\ num = s.agg.fakeVotes
      /\ den = s.agg.total
      /\ den = Len(s.frameResults)
      /\ s.agg.verdict \in {"likely_fake", "likely_real", "inconclusive"}
      /\ s.agg.verdict = "likely_fake" <=> 5 * num > 2 * den
      /\ s.agg.verdict = "likely_real" <=> 10 * num < den
      /\ \A k \in 0..den : s.frameResults = Votes(k, den) => num = k
      /\ s.frameResults = Votes(2, 5) => s.agg.verdict = "inconclusive"
      /\ s.frameResults = Votes(2, 3) => s.agg.verdict = "likely_fake"
      /\ (den = 10 /\ s.frameResults = Votes(1, 10)) => s.agg.verdict = "inconclusive"

\* one fake vote in ten frames: ratio exactly 0.1, verdict inconclusive
C15_Witness ==
  \E r \in Runs :
    /\ AppliedAggregate(w[r])
    /\ w[r].agg.ratio = [num |-> 1, den |-> 10]
    /\ w[r].agg.verdict = "inconclusive"

RECURSIVE PresentSamples(_)
\* the confidence samples the per-frame results hold: the score of every
\* labelled top-ranked element that has one, and the number of every text
\* that states a confidence
PresentSamples(frameResults) ==
  IF frameResults = <<>> THEN <<>>
  ELSE LET fr == Head(frameResults) IN
       (IF hasLabelledBest(fr) /\ fr.items[1].hasScore
        THEN <<RoundDiv(fr.items[1].score, 10)>>
        ELSE IF fr.shape = "text" /\ matchConfidence(toLowerCase(fr.text)).has
        THEN <<matchConfidence(toLowerCase(fr.text)).val>>
        ELSE <<>>) \o PresentSamples(Tail(frameResults))

\* C16: the Aggregator's confidence is the rounded average of the collected
\* confidence samples whenever at least one sample exists, including when
\* the samples are 0 or average to 0, and every score present on a
\* top-ranked label is collected as a sample; only when no sample exists is
\* confidence min(100, max(40, ratio*100 + 40)).
C16_ConfidenceIsAverageOfSamples ==
  \A r \in Runs :
    LET s == w[r]
        present == PresentSamples(s.frameResults)
        estimate == RoundDiv(100 * s.agg.ratio.num + 40 * s.agg.ratio.den,
                             s.agg.ratio.den)
    IN
    AppliedAggregate(s) =>
      /\ s.agg.confidences = present
      /\ s.agg.confidence =
           IF Len(present) > 0 THEN RoundDiv(Sum(present), Len(present))
           ELSE IF estimate > 100 THEN 100
           ELSE IF estimate < 40 THEN 40
           ELSE estimate

\* C17: in a deepfake run a classification failure of one frame never aborts
\* the pipeline: the per-frame results are one per classification made, in
\* sample order, an error marker for each frame whose classification failed
\* and the classifier output otherwise; after the loop there is exactly one
\* for each sampled frame, and the pipeline proceeds to aggregation.
C17_FrameFailureIsRecordedNotRaised ==
  \A r \in Runs :
    LET s == w[r] IN
    /\ s.caught.site # "classify"
    /\ s.thrown.site # "classify"
    /\ Len(s.frameResults) = Len(s.clf)
    /\ Len(s.frameResults) <= s.sample
    /\ \A j \in 1..Len(s.frameResults) :
         /\ s.frameResults[j].frame = j
         /\ s.clf[j] = "threw" =>
              /\ s.frameResults[j].shape = "error"
              /\ s.frameResults[j].text = Http503Message
         /\ s.clf[j] = "returned" =>
              /\ s.frameResults[j].shape = "classifier"
              /\ s.frameResults[j].items \in ClassifierData
    /\ s.pc = "classify" => Len(s.frameResults) < s.sample
    /\ (s.sample > 0 /\ s.pc # "classify") =>
         /\ Len(s.frameResults) = s.sample
         /\ s.sample = IF s.frames < MAX_FRAMES THEN s.frames ELSE MAX_FRAMES
         /\ \E k \in 1..Len(s.log) :
              /\ s.log[k] = "aggregateFrameResults"
              /\ s.log[k + 1] = "callHFReportModel"
              /\ s.log[k - 1] = "callHFFrameClassifier"
         /\ s.agg # NoAgg
         /\ (s.pc = "reportMM" /\ s.rt.calls = 0) =>
              s.agg = aggregateFrameResults(s.frameResults)

\* the first frame's classification failed, the second one's succeeded, and
\* the run went on to leave the report completed
C17_Witness ==
  \E r \in Runs :
    /\ w[r].clf = <<"threw", "returned">>
    /\ w[r].pc = "done"
    /\ w[r].caught = NoErr
    /\ store.status = "completed"

\* the sample was taken from a directory listing
AppliedSample(s) == s.pc = "applied" /\ s.agg = NoAgg /\ s.data = NoData

\* C18: with F extracted frames and frame cap N, the frames classified are
\* exactly the first min(N, F) frames in filename sort order, frame-000001,
\* frame-000002, ..., whatever order the directory listing returns them in.
C18_SampleIsInFilenameOrder ==
  \A r \in Runs :
    LET s == w[r]
        F == Len(s.listing)
        n == IF F < MAX_FRAMES THEN F ELSE MAX_FRAMES
    IN
    AppliedSample(s) => s.sampled = [j \in 1..n |-> j]

\* C19: the final deepfake result takes its verdict and its confidence from
\* the parsed synthesis report whenever that report carries the field, for
\* every value it carries, including confidence 0, and from the Aggregator
\* only when the field is absent, each of the two independently.
C19_ReportFieldsArePreferred ==
  \A r \in Runs :
    LET s == w[r] IN
    (AppliedDeepfake(s) /\ s.thrown = NoErr) =>
      /\ s.result.json.f.verdict =
           IF carries(s.parsed, "verdict") THEN s.parsed.f.verdict
           ELSE JStr(Text(s.agg.verdict, Len(s.agg.verdict)))
      /\ s.result.json.f.confidence =
           IF carries(s.parsed, "confidence") THEN s.parsed.f.confidence
           ELSE JNum(s.agg.confidence)

(***************************************************************************)
(* C20: two concurrent runs against the same pending report can both pass  *)
(* the idempotence guard, both execute their pipeline and both patch the   *)
(* report.  No step of the worker or of the store's PATCH excludes the     *)
(* second write: every PATCH a run is about to send is accepted and saved  *)
(* by the store whatever the report's status is by then, and the stored    *)
(* status and result are always those of the patch that was applied last.  *)
(***************************************************************************)
\* the run is about to send its PATCH request
AboutToPatch(s) == s.pc \in {"patchC", "patchF"} /\ s.rt.st = "call"

\* the body of the request the run is about to send
PatchBody(s) == [result |-> CurPatch(s).result, status |-> CurPatch(s).status]

\* the patch the store was saved by last
LastPatch == w[store.last.run].patches[store.last.op]

C20_LastAppliedPatchWins ==
  /\ \A r \in Runs :
       AboutToPatch(w[r]) =>
         LET resp == reports_patch(store, env, PatchBody(w[r])) IN
           /\ resp.kind = "ok"
           /\ resp.store.status = PatchBody(w[r]).status
           /\ resp.store.result = PatchBody(w[r]).result
  /\ store.last.run \in Runs =>
       /\ LastPatch.applied > 0
       /\ store.status = LastPatch.status
       /\ store.result = LastPatch.result
  /\ store.last.run \notin Runs => store.status = "pending"

\* both runs fetched the report while it was pending, both ran the pipeline,
\* both patches were saved, and both runs are over; the second patch was saved
\* over a completed report
C20_Witness ==
  /\ \A r \in Runs :
       /\ w[r].pc = "done"
       /\ w[r].report.exists /\ w[r].report.status = "pending"
       /\ w[r].raw # NoRaw
       /\ Len(w[r].patches) = 1
       /\ w[r].patches[1].status = "completed"
       /\ w[r].patches[1].applied > 0
  /\ w["r1"].patches[1].result # w["r2"].patches[1].result
  /\ store.last.run = "r2"
  /\ store.status = "completed"
  /\ store.result = w["r2"].patches[1].result

(***************************************************************************)
(* C21: a GET /reports/{id} carrying the worker's service credential as    *)
(* bearer token is answered with the report when it exists and with 404    *)
(* when it does not: with the credential its PATCH is accepted with, a     *)
(* run that has sent its GET is never refused with 401 or 403.             *)
(***************************************************************************)
C21_ServiceCredentialFetchesReport ==
  \A r \in Runs :
    (w[r].pc # "idle" /\ env.svcKeyValid /\ env.idValid) =>
      /\ reports_get(store, env).kind = IF store.exists THEN "ok" ELSE "http404"
      /\ w[r].thrown.kind \notin {"http401", "http403"}

(***************************************************************************)
(* C22: PATCH /reports/{id} changes no field of the stored report other    *)
(* than result and status: type, fileUrl, metadata and owner are after any *)
(* sequence of patches what they were at first; status is changed only     *)
(* when the supplied value is one of pending, completed, failed, and any   *)
(* other supplied status leaves the stored status as it was while the      *)
(* request is answered as it would be with a status of the three.          *)
(***************************************************************************)
\* the fields of a stored report a patch must leave alone
Frame(st) ==
  IF st.exists
  THEN [exists |-> TRUE, type |-> st.type, fileUrl |-> st.fileUrl,
        metadata |-> st.metadata, ownerUid |-> st.ownerUid]
  ELSE [exists |-> FALSE]

C22_PatchChangesOnlyResultAndStatus ==
  LET c == w["client"] IN
  /\ Frame(store) = Frame(c.created)
  /\ \A i \in 1..Len(c.sent) :
       LET q == c.sent[i] IN
       /\ q.kind = reports_patch(q.before, env, [q.body EXCEPT !.status = "pending"]).kind
       /\ q.kind # "ok" => q.after = q.before
       /\ q.kind = "ok" =>
            /\ q.after.status = IF q.body.status \in Statuses THEN q.body.status
                                ELSE q.before.status
            /\ q.after.result \in {q.before.result, q.body.result}

\* a patch with a status outside the three was answered 200 and left the
\* status, while its result was stored; then a patch changed the status
C22_Witness ==
  LET c == w["client"] IN
  /\ Len(c.sent) = 2
  /\ c.sent[1].kind = "ok" /\ c.sent[1].body.status = "archived"
  /\ c.sent[1].after.status = c.created.status
  /\ c.sent[1].after.result # c.created.result
  /\ c.sent[2].kind = "ok" /\ c.sent[2].body.status = "failed"
  /\ store.status = "failed" /\ c.created.status = "pending"
  /\ store.metadata = "m1" /\ store.type = "deepfake"

(***************************************************************************)
(* C23: a report created through POST /reports/audit or                    *)
(* POST /reports/deepfake is stored in status pending with an empty result *)
(* and stays so until a worker run patches it, so a worker run that        *)
(* fetched a newly created report passes the idempotence guard instead of  *)
(* skipping it.                                                            *)
(***************************************************************************)
C23_CreatedReportIsPendingUntilPatched ==
  /\ (w["client"].pc = "created" /\ store.last = NoWrite) =>
       /\ store.status = "pending"
       /\ store.result = EmptyResult
  /\ \A r \in Runs :
       (w[r].report.exists /\ w[r].pc \notin {"idle", "getReport", "guard"}) =>
         w[r].pc = "dispatch"

(***************************************************************************)
(* C24: assuming every external call eventually returns or fails, every    *)
(* run terminates; it goes through Fetch, Dispatch, Persist-Success or     *)
(* Persist-Failure and Cleanup in this order and never returns to an       *)
(* earlier phase, makes at most 3 attempts of each logical network call,   *)
(* and makes a number of logical network calls bounded by a function of    *)
(* the frame cap.  As stated, a run goes through exactly one of            *)
(* Persist-Success and Persist-Failure; in the code a run whose completed  *)
(* patch fails goes through Persist-Failure after Persist-Success, a run   *)
(* whose fetch fails ends at once, and a skipped run ends after Fetch.     *)
(***************************************************************************)
\* the phase a run is in
Phase(s) ==
  CASE s.pc = "idle" -> 0
    [] s.pc \in {"getReport", "guard"} -> 1
    [] s.pc = "patchC" -> 3
    [] s.pc = "patchF" -> 4
    [] s.pc = "cleanup" -> 5
    [] s.pc \in {"done", "exit1"} -> 6
    [] OTHER -> 2

NetworkOps ==
  {"getReport", "downloadFromGCS", "callHFFrameClassifier", "callHFReportModel",
   "callHFTextModel", "uploadToGCS", "patchReport"}

\* the logical network calls the run has begun
NetworkCalls(s) == Cardinality({j \in 1..Len(s.log) : s.log[j] \in NetworkOps})

\* getReport, downloadFromGCS, one classification per sampled frame, the
\* report call, its fallback inside callHFReportModel and the fallback of
\* analyzeDeepfake, uploadToGCS, and the two patches
CallBound == MAX_FRAMES + 8

\* attempts and calls are bounded
BoundedCalls(s) ==
  /\ s.rt.calls <= DefaultAttempts
  /\ NetworkCalls(s) <= CallBound

\* the run is over
Terminated(s) == s.pc \in {"done", "exit1"}

\* the patches of a run: none, one, or a completed patch that threw and then
\* a failed one
PersistPhases(s) ==
  /\ Len(s.patches) <= 2
  /\ Len(s.patches) = 2 =>
       /\ s.patches[1].status = "completed" /\ s.patches[1].outcome = "threw"
       /\ s.patches[2].status = "failed"
  /\ (s.pc \in {"cleanup", "done"} /\ PassedGuard(s)) => Len(s.patches) >= 1
  /\ ~PassedGuard(s) => Len(s.patches) = 0

CarriesArtifact(s, json) ==
  /\ carries(json, "artifacts")
  /\ IF s.report.type = "deepfake"
     THEN get(get(json, "artifacts"), "diagnostic") = JStr(DiagArtifact)
     ELSE get(get(json, "artifacts"), "raw_output") = JStr(AuditArtifact)

\* op was logged before the j-th entry of the log
LoggedBefore(s, op, j) == \E k \in 1..(j - 1) : s.log[k] = op

C25_CompletedPatchCarriesArtifact ==
  \A r \in Runs :
    LET s == w[r] IN
    /\ \A i \in 1..Len(s.patches) :
         s.patches[i].status = "completed" =>
           /\ \E j \in 1..Len(s.log) :
                s.log[j] = "patchReport" /\ LoggedBefore(s, "uploadToGCS", j)
           /\ s.caught.site # "upload"
           /\ CarriesArtifact(s, s.patches[i].result.json)
    /\ (s.caught.site = "upload" /\ s.pc \in {"patchF", "cleanup", "done"}) =>
         /\ Len(s.patches) = 1
         /\ s.patches[1].status = "failed"

(***************************************************************************)
(* C26: every temporary file or directory a run creates locally (the       *)
(* downloaded video, the frames directory, the diagnostic JSON file, the   *)
(* raw audit output file) is in the run's cleanup list from the moment it  *)
(* exists, so that on every exit path, including a failure of the step     *)
(* that created it, nothing the run created is left behind after cleanup:  *)
(* what is left at the end is at most a path whose removal was tried.      *)
(***************************************************************************)
C26_TemporaryFilesAreRegistered ==
  \A r \in Runs :
    LET s == w[r] IN
    /\ s.files \subseteq Range(s.toCleanup)
    /\ s.pc = "done" => s.files \subseteq s.rmTried

(***************************************************************************)
(* C27: once the stored report has status completed, no step of a worker   *)
(* run changes its status or replaces its result, over every interleaving  *)
(* of runs and within a single run whose completed patch was saved by the  *)
(* store while its response was lost.                                      *)
(***************************************************************************)
C27_CompletedReportIsNeverOverwritten ==
  [][(store.exists /\ store.status = "completed") =>
       (store'.status = "completed" /\ store'.result = store.result)]_vars

(***************************************************************************)
(* C28: a deepfake run patches the report as completed only if at least    *)
(* one sampled frame was classified successfully; when the classification  *)
(* of every sampled frame failed, the run does not end completed with a    *)
(* verdict computed from error markers alone.                              *)
(***************************************************************************)
C28_CompletedNeedsAClassifiedFrame ==
  \A r \in Runs :
    LET s == w[r] IN
    (s.report.exists /\ s.report.type = "deepfake") =>
      \A i \in 1..Len(s.patches) :
        s.patches[i].status = "completed" =>
          \E j \in 1..Len(s.frameResults) : s.frameResults[j].shape = "classifier"

=============================================================================
